---- MODULE Spec2Model ----
(***************************************************************************)
(* A model of src/cli.py, the FutureHouse command line front-end.          *)
(*                                                                         *)
(* One invocation of the program is one behaviour: the click group         *)
(* callback runs, then the chosen command resolves the credential, builds  *)
(* the client, builds its payload, makes its client call and prints the    *)
(* response or the formatted error.  The Task Service Client is external:  *)
(* each call on it nondeterministically returns a value or raises.         *)
(***************************************************************************)
EXTENDS Integers, Sequences, FiniteSets, TLC

(***************************************************************************)
(* Python values.  Every value is a record tagged by t; the payload field  *)
(* differs per tag (n: integer, s: string, c: children).                   *)
(***************************************************************************)
NoneV == [t |-> "none"]
PyInt(n) == [t |-> "int", n |-> n]
PyStr(s) == [t |-> "str", s |-> s]
List(c) == [t |-> "list", c |-> c]
\* A dict keeps its items in insertion order, as a sequence of items; a key
\* is a value (None, an int, a str).  Pair is the item of a str key.
Item(key, v) == [k |-> key, v |-> v]
Pair(k, v) == Item(PyStr(k), v)
Dict(c) == [t |-> "dict", c |-> c]
\* A str holding JSON text (an option value or a file's content), as tokens.
Text(c) == [t |-> "text", c |-> c]
\* An object that is no JSON type.  kind "model" has a structured export
\* (model_dump), kind "attrs" has only an attribute mapping (__dict__);
\* export is the mapping either one would give.
Obj(kind, export) == [t |-> "obj", s |-> kind, c |-> <<export>>]
\* A variable that is not bound yet.
Unset == [t |-> "unset"]
\* A member of the JobNames enumeration.
Member(name) == [t |-> "member", s |-> name]

\* Python truthiness (bool(v)).
Truthy(v) ==
  CASE v.t = "none" -> FALSE
    [] v.t = "int" -> v.n # 0
    [] v.t = "str" -> v.s # ""
    [] v.t \in {"list", "dict", "text"} -> Len(v.c) > 0
    [] OTHER -> TRUE

\* a or b
PyOr(a, b) == IF Truthy(a) THEN a ELSE b

(***************************************************************************)
(* dict operations                                                         *)
(***************************************************************************)
DictKeys(d) == {d.c[i].k : i \in 1..Len(d.c)}
\* d[key], for any key, and d[k] for the str key k.
DictGet(d, key) == d.c[CHOOSE i \in 1..Len(d.c) : d.c[i].k = key].v
DictHas(d, k) == PyStr(k) \in DictKeys(d)
DictItem(d, k) == DictGet(d, PyStr(k))
\* d[key] = v: an existing key keeps its position, a new key is appended.
DictSetKey(d, key, v) ==
  IF key \in DictKeys(d)
  THEN Dict([i \in 1..Len(d.c) |-> IF d.c[i].k = key THEN Item(key, v) ELSE d.c[i]])
  ELSE Dict(Append(d.c, Item(key, v)))
DictSet(d, k, v) == DictSetKey(d, PyStr(k), v)

RECURSIVE SetAll(_, _)
\* d after d[key] = v for every item of the sequence items, in order.
SetAll(d, items) ==
  IF items = <<>> THEN d
  ELSE SetAll(DictSetKey(d, Head(items).k, Head(items).v), Tail(items))

\* The one-character strings of the str s.
Chars(s) == [i \in 1..Len(s) |-> PyStr(SubSeq(s, i, i))]
\* What iterating over a value yields: the elements of a list, the keys of a
\* dict, the characters of a str; None and an int are not iterable.
Iterable(x) == x.t \in {"list", "dict", "str"}
Elems(x) ==
  CASE x.t = "list" -> x.c
    [] x.t = "dict" -> [i \in 1..Len(x.c) |-> x.c[i].k]
    [] OTHER -> Chars(x.s)
\* A list and a dict cannot be a dict key.
Hashable(x) == x.t \notin {"list", "dict"}
\* The exception dict.update raises for the element e of its argument, "" for
\* none: e must be iterable (TypeError), yield two items (ValueError), the
\* first of them hashable (TypeError).
ElemError(e) ==
  IF ~Iterable(e) THEN "TypeError"
  ELSE IF Len(Elems(e)) # 2 THEN "ValueError"
  ELSE IF ~Hashable(Elems(e)[1]) THEN "TypeError"
  ELSE ""
\* dict.update(x), as CPython does it.  A dict merges its items; any other
\* iterable is taken element by element as (key, value), and the first
\* element that is no such pair raises; None and an int are not iterable.
DictUpdate(d, x) ==
  IF x.t = "dict" THEN [ok |-> TRUE, val |-> SetAll(d, x.c), err |-> ""]
  ELSE IF ~Iterable(x) THEN [ok |-> FALSE, val |-> d, err |-> "TypeError"]
  ELSE LET es == Elems(x)
           bad == {i \in 1..Len(es) : ElemError(es[i]) # ""} IN
       IF bad = {}
       THEN [ok |-> TRUE, err |-> "",
             val |-> SetAll(d, [i \in 1..Len(es) |->
                                  Item(Elems(es[i])[1], Elems(es[i])[2])])]
       ELSE [ok |-> FALSE, val |-> d,
             err |-> ElemError(es[CHOOSE i \in bad : \A j \in bad : i <= j])]

(***************************************************************************)
(* JSON text.  A text is a sequence of tokens; the lexical level (quotes,  *)
(* digits, white space, indentation) is not modelled.                      *)
(***************************************************************************)
LBrace == [k |-> "{"]
RBrace == [k |-> "}"]
LBrack == [k |-> "["]
RBrack == [k |-> "]"]
Comma == [k |-> ","]
Colon == [k |-> ":"]
TNull == [k |-> "null"]
TInt(n) == [k |-> "int", n |-> n]
TStr(s) == [k |-> "str", s |-> s]
\* Unquoted characters, as click.echo prints a str.
TRaw(s) == [k |-> "raw", s |-> s]

ParseFail == [ok |-> FALSE, val |-> NoneV, next |-> 0]
ParseOk(v, i) == [ok |-> TRUE, val |-> v, next |-> i]

RECURSIVE ParseValue(_, _), ParseArray(_, _, _), ParseObject(_, _, _)
\* The value that starts at token i.
ParseValue(toks, i) ==
  IF i > Len(toks) THEN ParseFail
  ELSE LET tk == toks[i] IN
    CASE tk.k = "null" -> ParseOk(NoneV, i + 1)
      [] tk.k = "int" -> ParseOk(PyInt(tk.n), i + 1)
      [] tk.k = "str" -> ParseOk(PyStr(tk.s), i + 1)
      [] tk.k = "[" ->
           IF i + 1 <= Len(toks) /\ toks[i + 1].k = "]"
           THEN ParseOk(List(<<>>), i + 2)
           ELSE ParseArray(toks, i + 1, <<>>)
      [] tk.k = "{" ->
           IF i + 1 <= Len(toks) /\ toks[i + 1].k = "}"
           THEN ParseOk(Dict(<<>>), i + 2)
           ELSE ParseObject(toks, i + 1, Dict(<<>>))
      [] OTHER -> ParseFail

\* The elements of an array from token i on, acc being those already read.
ParseArray(toks, i, acc) ==
  LET r == ParseValue(toks, i) IN
  IF ~r.ok \/ r.next > Len(toks) THEN ParseFail
  ELSE CASE toks[r.next].k = "]" -> ParseOk(List(Append(acc, r.val)), r.next + 1)
         [] toks[r.next].k = "," -> ParseArray(toks, r.next + 1, Append(acc, r.val))
         [] OTHER -> ParseFail

\* The members of an object from token i on; a repeated key keeps the last value.
ParseObject(toks, i, acc) ==
  IF i + 1 > Len(toks) \/ toks[i].k # "str" \/ toks[i + 1].k # ":" THEN ParseFail
  ELSE LET r == ParseValue(toks, i + 2) IN
    IF ~r.ok \/ r.next > Len(toks) THEN ParseFail
    ELSE CASE toks[r.next].k = "}" ->
                ParseOk(DictSet(acc, toks[i].s, r.val), r.next + 1)
           [] toks[r.next].k = "," ->
                ParseObject(toks, r.next + 1, DictSet(acc, toks[i].s, r.val))
           [] OTHER -> ParseFail

\* json.loads / json.load: ok = FALSE is json.JSONDecodeError.
json_loads(text) ==
  LET r == ParseValue(text.c, 1) IN
  IF r.ok /\ r.next = Len(text.c) + 1 THEN [ok |-> TRUE, val |-> r.val]
  ELSE [ok |-> FALSE, val |-> NoneV]

RECURSIVE Serializable(_), Dumps(_), DumpsItems(_), DumpsMembers(_)
\* Whether json.dumps accepts v (else it raises TypeError).
Serializable(v) ==
  CASE v.t \in {"none", "int", "str"} -> TRUE
    [] v.t = "list" -> \A i \in 1..Len(v.c) : Serializable(v.c[i])
    [] v.t = "dict" -> \A i \in 1..Len(v.c) : Serializable(v.c[i].v)
    [] OTHER -> FALSE

Dumps(v) ==
  CASE v.t = "none" -> <<TNull>>
    [] v.t = "int" -> <<TInt(v.n)>>
    [] v.t = "str" -> <<TStr(v.s)>>
    [] v.t = "list" -> <<LBrack>> \o DumpsItems(v.c) \o <<RBrack>>
    [] v.t = "dict" -> <<LBrace>> \o DumpsMembers(v.c) \o <<RBrace>>

DumpsItems(c) ==
  IF c = <<>> THEN <<>>
  ELSE Dumps(Head(c)) \o (IF Tail(c) = <<>> THEN <<>> ELSE <<Comma>> \o DumpsItems(Tail(c)))

\* json.dumps writes a key that is no str as a str.
KeyText(key) ==
  CASE key.t = "str" -> key.s
    [] key.t = "int" -> ToString(key.n)
    [] OTHER -> "null"

DumpsMembers(c) ==
  IF c = <<>> THEN <<>>
  ELSE <<TStr(KeyText(Head(c).k)), Colon>> \o Dumps(Head(c).v)
       \o (IF Tail(c) = <<>> THEN <<>> ELSE <<Comma>> \o DumpsMembers(Tail(c)))

\* json.dumps(v, ensure_ascii=False, indent=2)
json_dumps(v) ==
  IF Serializable(v) THEN [ok |-> TRUE, val |-> Text(Dumps(v))]
  ELSE [ok |-> FALSE, val |-> Text(<<>>)]

(***************************************************************************)
(* Attribute access on objects and exceptions                              *)
(***************************************************************************)
\* An exception: its class, str(error) and its instance attributes.
Exc(type, msg, attrs) == [t |-> "exc", s |-> type, m |-> msg, c |-> <<Dict(attrs)>>]
HasAttr(o, name) == o.t \in {"obj", "exc"} /\ DictHas(o.c[1], name)
GetAttr(o, name, default) == IF HasAttr(o, name) THEN DictItem(o.c[1], name) ELSE default

(***************************************************************************)
(* The helpers of cli.py                                                   *)
(***************************************************************************)
\* What click hands the group callback for --api-key (envvar=FUTUREHOUSE_API_KEY):
\* the command line value when given, else the environment variable when it is
\* set and not empty, else None.
click_api_key(option, env) ==
  IF option # NoneV THEN option ELSE IF Truthy(env) THEN env ELSE NoneV

\* A get_api_key that does not check what it found.
get_api_key_unchecked(api_key_option, env) ==
  [ok |-> TRUE, val |-> PyOr(api_key_option, env)]

\* get_api_key; env is os.getenv("FUTUREHOUSE_API_KEY").  ok = FALSE is
\* click.BadParameter.
get_api_key(api_key_option, env) ==
  LET api_key == PyOr(api_key_option, env) IN
  IF ~Truthy(api_key) THEN [ok |-> FALSE, val |-> NoneV]
  ELSE [ok |-> TRUE, val |-> api_key]

\* The status codes handle_http_error names in its message.
KnownCodes == {400, 401, 403, 429, 500, 503}

\* The status handle_http_error works with.
error_status(error) ==
  LET status == GetAttr(error, "status_code", NoneV) IN
  IF status = NoneV /\ HasAttr(error, "response")
     /\ GetAttr(error, "response", NoneV) # NoneV
  THEN GetAttr(GetAttr(error, "response", NoneV), "status_code", NoneV)
  ELSE status

\* handle_http_error: the line it writes to stderr, as the pieces of the
\* formatted string.  `status in {400, ...}` hashes status: for a status that
\* is a list or a dict it raises TypeError (err) and nothing is written.
handle_http_error(error) ==
  LET message == error.m
      status == error_status(error) IN
  IF ~Hashable(status) THEN [err |-> "TypeError", line |-> <<>>]
  ELSE IF status.t = "int" /\ status.n \in KnownCodes
  THEN [err |-> "", line |-> <<"Error ", ToString(status.n), ": ", message>>]
  ELSE [err |-> "", line |-> <<"Error: ", message>>]

\* dict[k] = v when the option value is truthy.
SetIf(d, k, v) == IF Truthy(v) THEN DictSet(d, k, v) ELSE d

\* A runtime_config in which the JSON is merged after the options.
runtime_config_json_last(runtime_config_json, continued_task_id, timeout, max_steps) ==
  LET parsed == json_loads(runtime_config_json)
      rc1 == SetIf(Dict(<<>>), "continued_task_id", continued_task_id)
      rc2 == SetIf(rc1, "timeout", timeout)
      rc3 == SetIf(rc2, "max_steps", max_steps)
      upd == DictUpdate(rc3, parsed.val) IN
  IF Truthy(runtime_config_json) /\ ~parsed.ok
  THEN [err |-> "BadParameter", val |-> Dict(<<>>)]
  ELSE IF Truthy(runtime_config_json) /\ ~upd.ok
  THEN [err |-> upd.err, val |-> Dict(<<>>)]
  ELSE [err |-> "", val |-> IF Truthy(runtime_config_json) THEN upd.val ELSE rc3]

\* The runtime_config dict create, run and async_run build.  err is "" on
\* success, "BadParameter" for json.JSONDecodeError, else the exception that
\* dict.update lets escape.
runtime_config(runtime_config_json, continued_task_id, timeout, max_steps) ==
  LET parsed == json_loads(runtime_config_json)
      upd == DictUpdate(Dict(<<>>), parsed.val) IN
  IF Truthy(runtime_config_json) /\ ~parsed.ok
  THEN [err |-> "BadParameter", val |-> Dict(<<>>)]
  ELSE IF Truthy(runtime_config_json) /\ ~upd.ok
  THEN [err |-> upd.err, val |-> Dict(<<>>)]
  ELSE LET rc0 == IF Truthy(runtime_config_json) THEN upd.val ELSE Dict(<<>>)
           rc1 == SetIf(rc0, "continued_task_id", continued_task_id)
           rc2 == SetIf(rc1, "timeout", timeout)
           rc3 == SetIf(rc2, "max_steps", max_steps) IN
       [err |-> "", val |-> rc3]

\* The members of the JobNames enumeration of the installed client library.
Members == {"CROW", "OWL"}

\* The names of the members, in definition order (JobNames._member_names_).
MemberNames == <<"CROW", "OWL">>
\* The module that defines JobNames (JobNames.__module__).
JobNamesModule == "futurehouse_client"
\* An object of the library or of the interpreter that cli.py never looks
\* into: a method, a class, a mapping of the members, a tuple, a flag or a
\* number fixed by the build.
Opaque == Obj("opaque", Dict(<<>>))

\* What getattr finds on an enumeration class besides its members: the
\* attributes of the class, of Enum, of object and of the metaclass EnumType
\* (which has no __getattr__ since Python 3.12).
EnumAttrs ==
  {"__annotations__", "__base__", "__bases__", "__basicsize__", "__bool__", "__call__",
   "__class__", "__contains__", "__copy__", "__deepcopy__", "__delattr__", "__dict__",
   "__dictoffset__", "__dir__", "__doc__", "__eq__", "__flags__", "__format__",
   "__ge__", "__getattribute__", "__getitem__", "__getstate__",
   "__gt__", "__hash__", "__init__", "__init_subclass__", "__instancecheck__",
   "__itemsize__", "__iter__", "__le__", "__len__", "__lt__", "__members__",
   "__module__", "__mro__", "__name__", "__ne__", "__new__", "__or__", "__prepare__",
   "__qualname__", "__reduce__", "__reduce_ex__", "__repr__", "__reversed__",
   "__ror__", "__setattr__", "__sizeof__", "__str__", "__subclasscheck__",
   "__subclasses__", "__subclasshook__", "__text_signature__", "__weakref__",
   "__weakrefoffset__", "_check_for_existing_members_", "_convert_", "_create_",
   "_find_data_repr_", "_find_data_type_", "_find_new_", "_generate_next_value_",
   "_get_mixins_", "_member_map_", "_member_names_", "_member_type_", "_missing_",
   "_new_member_", "_unhashable_values_", "_use_args_", "_value2member_map_",
   "_value_repr_", "mro"}
\* The attributes Python 3.12 and 3.13 add to these.
LaterAttrs ==
  {"__firstlineno__", "__static_attributes__", "__type_params__", "__signature__",
   "_add_alias_", "_add_member_", "_add_value_alias_", "_hashable_values_",
   "_unhashable_values_map_"}
\* The attributes of the JobNames class that are no members.
ClassAttrs == EnumAttrs \cup LaterAttrs
\* getattr(JobNames, name, name): a member, any other attribute of the
\* class, else the name itself.  The enumeration has no docstring.
class_getattr(name) ==
  CASE name \in Members -> Member(name)
    [] name \in {"__name__", "__qualname__"} -> PyStr("JobNames")
    [] name = "__module__" -> PyStr(JobNamesModule)
    [] name \in {"__doc__", "__text_signature__", "_value_repr_"} -> NoneV
    [] name = "_member_names_" ->
         List([i \in 1..Len(MemberNames) |-> PyStr(MemberNames[i])])
    [] name = "_member_map_" ->
         Dict([i \in 1..Len(MemberNames) |-> Pair(MemberNames[i], Member(MemberNames[i]))])
    [] name = "_unhashable_values_" -> List(<<>>)
    [] name \in {"__annotations__", "_unhashable_values_map_"} -> Dict(<<>>)
    [] name = "__itemsize__" -> PyInt(0)
    [] name \in ClassAttrs -> Opaque
    [] OTHER -> PyStr(name)

\* The attributes of None (of NoneType and of object).
NoneAttrs ==
  {"__bool__", "__class__", "__delattr__", "__dir__", "__doc__", "__eq__",
   "__format__", "__ge__", "__getattribute__", "__getstate__", "__gt__", "__hash__",
   "__init__", "__init_subclass__", "__le__", "__lt__", "__ne__", "__new__",
   "__reduce__", "__reduce_ex__", "__repr__", "__setattr__", "__sizeof__", "__str__",
   "__subclasshook__"}
\* getattr(None, name, name): JobNames is None when the import failed.
none_getattr(name) ==
  CASE name = "__doc__" -> PyStr("The type of the None singleton.")
    [] name \in NoneAttrs -> Opaque
    [] OTHER -> PyStr(name)

\* job_name.  jobnames is the JobNames the import gave: "none" (import
\* failed; create_client has raised before this line is reached), "enum" (an
\* enumeration without from_string), "strict" (from_string raises ValueError
\* for a name that is no member) or "lenient" (from_string returns such a name
\* unchanged).
job_name(jobnames, name) ==
  IF jobnames \in {"strict", "lenient"}
  THEN IF name \in Members THEN [err |-> "", val |-> Member(name)]
       ELSE IF jobnames = "strict" THEN [err |-> "ValueError", val |-> NoneV]
       ELSE [err |-> "", val |-> PyStr(name)]
  ELSE IF jobnames = "enum"
  THEN [err |-> "", val |-> class_getattr(name)]
  ELSE [err |-> "", val |-> none_getattr(name)]

or_none_keep_empty(rc) == rc

\* runtime_config or None
or_none(rc) == IF Truthy(rc) THEN rc ELSE NoneV

task_data(job, query, task_id, rc) ==
  Dict(<<Pair("name", job), Pair("query", query), Pair("id", task_id),
         Pair("runtime_config", or_none(rc))>>)

(***************************************************************************)
(* Bounds and input sets                                                   *)
(***************************************************************************)
\* The longest task array a batch file holds.
MaxBatch == 2

Commands == {"create", "run", "arun", "batch", "abatch", "status", "result"}
TaskCommands == {"create", "run", "arun"}
BatchCommands == {"batch", "abatch"}

\* --api-key and FUTUREHOUSE_API_KEY: absent, empty, set.
ApiKeyOptions == {NoneV, PyStr(""), PyStr("k")}
EnvKeys == {NoneV, PyStr(""), PyStr("e")}
\* What the import at the top of cli.py gave: "none" (ImportError), else the
\* flavour of JobNames (see job_name); "legacy" is a client library whose
\* client has get_task but no get_task_result.
Libs == {"none", "enum", "strict", "lenient", "legacy"}
JobNamesOf(l) == IF l = "legacy" THEN "enum" ELSE l

Names == {"CROW", "BOGUS", "__name__"}
ContinuedIds == {NoneV, PyStr(""), PyStr("t0")}
\* --timeout: absent or set; --max-steps: absent, 0 (falsy), set.
Timeouts == {NoneV, PyInt(5)}
MaxSteps == {NoneV, PyInt(0), PyInt(3)}

DropLast(toks) == SubSeq(toks, 1, Len(toks) - 1)
JsonA == Dict(<<Pair("timeout", PyInt(9)), Pair("extra", PyStr("x"))>>)
JsonB == Dict(<<Pair("continued_task_id", PyStr("j0")), Pair("max_steps", PyInt(7))>>)
\* --runtime-config: absent, the empty string, JSON objects, a truncated
\* object, and JSON that is no object (null, and an array that dict.update
\* takes as pairs: [[1, 2], "ab"]).
RuntimeConfigTexts ==
  {NoneV, Text(<<>>), Text(Dumps(Dict(<<>>))), Text(Dumps(JsonA)), Text(Dumps(JsonB)),
   Text(DropLast(Dumps(JsonA))), Text(<<TNull>>),
   Text(Dumps(List(<<List(<<PyInt(1), PyInt(2)>>), PyStr("ab")>>)))}

Queries == <<"q1", "q2", "q3", "q4">>
FileTask(i) == Dict(<<Pair("name", PyStr("CROW")), Pair("query", PyStr(Queries[i]))>>)
FileTasks(n) == List([i \in 1..n |-> FileTask(i)])
\* --file: a path that does not exist (None), else the file's content: an
\* array of n tasks, such an array cut short, an empty file, a single task.
Files ==
  {NoneV, Text(<<>>), Text(Dumps(FileTask(1)))}
    \cup {Text(Dumps(FileTasks(n))) : n \in 0..MaxBatch}
    \cup {Text(DropLast(Dumps(FileTasks(n)))) : n \in 0..MaxBatch}

NoArgs ==
  [api_key |-> NoneV, name |-> "", query |-> NoneV, task_id |-> NoneV,
   continued_task_id |-> NoneV, timeout |-> NoneV, max_steps |-> NoneV,
   runtime_config_json |-> NoneV, verbose |-> FALSE, file |-> NoneV]

\* The command lines of each command.
ArgsOf(c) ==
  CASE c = "create" ->
         {[NoArgs EXCEPT !.api_key = k, !.name = nm, !.query = PyStr("hello"),
                         !.continued_task_id = ct, !.timeout = to, !.max_steps = ms,
                         !.runtime_config_json = rj] :
            k \in ApiKeyOptions, nm \in Names, ct \in ContinuedIds, to \in Timeouts,
            ms \in MaxSteps, rj \in RuntimeConfigTexts}
    [] c \in {"run", "arun"} ->
         {[NoArgs EXCEPT !.api_key = k, !.name = nm, !.query = PyStr("hello"),
                         !.continued_task_id = ct, !.timeout = to, !.max_steps = ms,
                         !.runtime_config_json = rj, !.verbose = vb] :
            k \in ApiKeyOptions, nm \in Names, ct \in ContinuedIds, to \in Timeouts,
            ms \in MaxSteps, rj \in RuntimeConfigTexts, vb \in BOOLEAN}
    [] c \in BatchCommands ->
         {[NoArgs EXCEPT !.api_key = k, !.file = f, !.verbose = vb] :
            k \in ApiKeyOptions, f \in Files, vb \in BOOLEAN}
    [] OTHER ->
         {[NoArgs EXCEPT !.api_key = k, !.task_id = PyStr("t1")] : k \in ApiKeyOptions}

(***************************************************************************)
(* The Task Service Client (external): what a call may return or raise     *)
(***************************************************************************)
\* The kinds of object the client returns: a plain dict, an object with a
\* structured export, an object with an attribute mapping only.
Kinds == {"dict", "model", "attrs"}
Reply(tag, kind) ==
  LET d == Dict(<<Pair("task", tag), Pair("status", PyStr("success"))>>) IN
  IF kind = "dict" THEN d ELSE Obj(kind, d)
\* What identifies a payload in the reply to it.
TagOf(p) ==
  IF p.t = "dict" /\ DictHas(p, "query") THEN DictItem(p, "query")
  ELSE IF p.t = "str" THEN p ELSE NoneV

\* One reply per task, in order, each of any kind.
Replies(tasks) ==
  {List([i \in 1..Len(tasks.c) |-> Reply(TagOf(tasks.c[i]), ks[i])]) :
     ks \in [1..Len(tasks.c) -> Kinds]}

Returns(method, arg) ==
  CASE method = "create_task" -> {PyStr("abc-123")}
    [] method \in {"run_tasks_until_done", "arun_tasks_until_done"} /\ arg.t = "list" ->
         Replies(arg)
    [] method = "get_task_result" -> {Reply(TagOf(arg), k) : k \in Kinds} \cup {NoneV}
    [] OTHER -> {Reply(TagOf(arg), k) : k \in Kinds}

Response(code) == Obj("attrs", Dict(<<Pair("status_code", code)>>))
\* The exceptions a call may raise: with a status code of their own, with
\* none, with a response that carries one, and with both; one whose
\* status_code is a list; and three that are no Exception (Ctrl-C during the
\* call, a bare BaseException, sys.exit(2)).
Raises ==
  {Exc("HTTPError", "boom", <<Pair("status_code", PyInt(c))>>) : c \in KnownCodes \cup {404}}
    \cup {Exc("Exception", "boom", <<>>),
          Exc("KeyboardInterrupt", "boom", <<>>),
          Exc("BaseException", "boom", <<>>),
          Exc("SystemExit", "2", <<Pair("code", PyInt(2))>>),
          Exc("HTTPError", "boom", <<Pair("status_code", List(<<PyInt(429)>>))>>),
          Exc("HTTPError", "boom", <<Pair("response", NoneV)>>),
          Exc("HTTPError", "boom", <<Pair("response", Obj("attrs", Dict(<<>>)))>>)}
    \cup {Exc("HTTPError", "boom", <<Pair("response", Response(PyInt(c)))>>) : c \in {401, 404}}
    \cup {Exc("HTTPError", "boom",
              <<Pair("status_code", NoneV), Pair("response", Response(PyInt(503)))>>),
          Exc("HTTPError", "boom",
              <<Pair("status_code", PyInt(404)), Pair("response", Response(PyInt(429)))>>),
          Exc("HTTPError", "boom",
              <<Pair("status_code", PyInt(429)), Pair("response", Response(PyInt(404)))>>)}

(***************************************************************************)
(* State                                                                   *)
(***************************************************************************)
VARIABLES
  cmd,          \* the command of this invocation
  args,         \* its command line
  environ,      \* os.environ["FUTUREHOUSE_API_KEY"], None when unset
  lib,          \* what the import of futurehouse_client gave
  pc,           \* where the invocation is
  ctx_api_key,  \* ctx.obj["api_key"]
  api_key,      \* the resolved credential
  client,       \* whether FutureHouseClient(api_key=...) was constructed
  payload,      \* task_data, tasks or task_id
  calls,        \* the calls made on the client, in order
  response,     \* what the client call returned
  error,        \* the exception caught by the command's try
  stdout,       \* the texts written to stdout
  stderr,       \* the lines written to stderr
  exit          \* how the invocation ended

vars == <<cmd, args, environ, lib, pc, ctx_api_key, api_key, client, payload, calls,
          response, error, stdout, stderr, exit>>
inputs == <<cmd, args, environ, lib>>

Init ==
  /\ cmd \in Commands
  /\ args \in ArgsOf(cmd)
  /\ environ \in EnvKeys
  /\ lib \in Libs
  /\ pc = "cli"
  /\ ctx_api_key = NoneV
  /\ api_key = NoneV
  /\ client = FALSE
  /\ payload = Unset
  /\ calls = <<>>
  /\ response = Unset
  /\ error = Unset
  /\ stdout = <<>>
  /\ stderr = <<>>
  /\ exit = "running"

(***************************************************************************)
(* Steps                                                                   *)
(***************************************************************************)
\* The invocation ends with an exception that nothing in cli.py catches:
\* click reports a click exception (BadParameter, UsageError) as a usage
\* error, anything else leaves the interpreter as a traceback.
Abort(kind, message) ==
  /\ pc' = "exit"
  /\ exit' = kind
  /\ stderr' = Append(stderr, IF kind = "BadParameter"
                              THEN <<"Error: Invalid value: ", message>>
                              ELSE <<"Traceback: ", kind, ": ", message>>)

\* The group callback, and click's validation of the command's parameters
\* (--file must name an existing path).
cli ==
  /\ pc = "cli"
  /\ ctx_api_key' = click_api_key(args.api_key, environ)
  /\ IF cmd \in BatchCommands /\ args.file = NoneV
     THEN Abort("BadParameter", "Path does not exist")
     ELSE pc' = "cmd" /\ UNCHANGED <<exit, stderr>>
  /\ UNCHANGED <<inputs, api_key, client, payload, calls, response, error, stdout>>

\* api_key = get_api_key(ctx.obj.get("api_key")), the first line of every command.
GetApiKey ==
  /\ pc = "cmd"
  /\ LET r == get_api_key(ctx_api_key, environ) IN
     IF r.ok
     THEN api_key' = r.val /\ pc' = "key" /\ UNCHANGED <<exit, stderr>>
     ELSE Abort("BadParameter", "API key not provided") /\ UNCHANGED api_key
  /\ UNCHANGED <<inputs, ctx_api_key, client, payload, calls, response, error, stdout>>

\* client = create_client(api_key), the second line of every command.
create_client ==
  /\ pc = "key"
  /\ IF lib = "none"
     THEN Abort("RuntimeError", "futurehouse-client package is not installed") /\ UNCHANGED client
     ELSE client' = TRUE /\ pc' = "client" /\ UNCHANGED <<exit, stderr>>
  /\ UNCHANGED <<inputs, ctx_api_key, api_key, payload, calls, response, error, stdout>>

\* create, run and async_run up to their try: runtime_config, job_name, task_data.
BuildTask ==
  /\ pc = "client"
  /\ LET rc == runtime_config(args.runtime_config_json, args.continued_task_id,
                              args.timeout, args.max_steps)
         jn == job_name(JobNamesOf(lib), args.name) IN
     IF rc.err = "BadParameter"
     THEN Abort("BadParameter", "Invalid JSON for runtime-config") /\ UNCHANGED payload
     ELSE IF rc.err # "" THEN Abort(rc.err, "dict.update") /\ UNCHANGED payload
     ELSE IF jn.err # "" THEN Abort(jn.err, "from_string") /\ UNCHANGED payload
     ELSE /\ payload' = task_data(jn.val, args.query, args.task_id, rc.val)
          /\ pc' = "payload"
          /\ UNCHANGED <<exit, stderr>>
  /\ UNCHANGED <<inputs, ctx_api_key, api_key, client, calls, response, error, stdout>>

\* run_batch and async_batch up to their try: tasks = json.load(f).
LoadTasks ==
  /\ pc = "client"
  /\ LET tasks == json_loads(args.file) IN
     IF tasks.ok
     THEN payload' = tasks.val /\ pc' = "payload" /\ UNCHANGED <<exit, stderr>>
     ELSE Abort("JSONDecodeError", "json.load") /\ UNCHANGED payload
  /\ UNCHANGED <<inputs, ctx_api_key, api_key, client, calls, response, error, stdout>>

\* status and result have no payload to build: the argument is the task id.
TakeTaskId ==
  /\ pc = "client"
  /\ payload' = args.task_id
  /\ pc' = "payload"
  /\ UNCHANGED <<inputs, ctx_api_key, api_key, client, calls, response, error, stdout,
                 stderr, exit>>

\* The one client call of a command, inside its try: it returns or raises.
Call(method, verbose) ==
  /\ pc = "payload"
  /\ calls' = Append(calls, [m |-> method, arg |-> payload, verbose |-> verbose])
  /\ \/ \E r \in Returns(method, payload) :
          response' = r /\ pc' = "returned" /\ UNCHANGED error
     \/ \E e \in Raises :
          error' = e /\ pc' = "raised" /\ UNCHANGED response
  /\ UNCHANGED <<inputs, ctx_api_key, api_key, client, payload, stdout, stderr, exit>>

\* client.get_task_result on a client that has no such attribute.
NoSuchMethod ==
  /\ pc = "payload"
  /\ error' = Exc("AttributeError", "no attribute get_task_result", <<>>)
  /\ pc' = "raised"
  /\ UNCHANGED <<inputs, ctx_api_key, api_key, client, payload, calls, response, stdout,
                 stderr, exit>>

\* click.echo(task_id_resp)
EchoPlain ==
  /\ pc = "returned"
  /\ stdout' = Append(stdout, Text(<<TRaw(response.s)>>))
  /\ pc' = "exit"
  /\ exit' = "returned"
  /\ UNCHANGED <<inputs, ctx_api_key, api_key, client, payload, calls, response, error,
                 stderr>>

\* What is handed to json.dumps for the response.
to_print(resp) == resp

\* click.echo(json.dumps(response, ensure_ascii=False, indent=2)); the
\* TypeError of json.dumps is raised inside the try.
EchoJson ==
  /\ pc = "returned"
  /\ LET d == json_dumps(to_print(response)) IN
     IF d.ok
     THEN /\ stdout' = Append(stdout, d.val)
          /\ pc' = "exit"
          /\ exit' = "returned"
          /\ UNCHANGED error
     ELSE /\ error' = Exc("TypeError", "not JSON serializable", <<>>)
          /\ pc' = "raised"
          /\ UNCHANGED <<stdout, exit>>
  /\ UNCHANGED <<inputs, ctx_api_key, api_key, client, payload, calls, response, stderr>>

\* The exception classes of the interpreter and its library that derive from
\* BaseException and not from Exception: `except Exception` does not catch
\* them.  Every other class derives from Exception.
NotException ==
  {"BaseException", "BaseExceptionGroup", "KeyboardInterrupt", "SystemExit",
   "GeneratorExit", "CancelledError"}
\* What reaches stderr when an exception leaves the command.  click answers
\* KeyboardInterrupt with Aborted!; for SystemExit the interpreter prints the
\* exit code when it is neither None nor an integer, and nothing otherwise;
\* anything else ends in a traceback.
EscapeLines(e) ==
  CASE e.s = "KeyboardInterrupt" -> << <<"Aborted!">> >>
    [] e.s = "SystemExit" ->
         IF GetAttr(e, "code", NoneV).t \in {"none", "int"} THEN <<>>
         ELSE << <<e.m>> >>
    [] OTHER -> << <<"Traceback: ", e.s, ": ", e.m>> >>

\* except Exception as e: handle_http_error(e).  An exception that is no
\* Exception is not caught, and one raised by handle_http_error itself leaves
\* the command too.
Except ==
  /\ pc = "raised"
  /\ pc' = "exit"
  /\ IF error.s \in NotException
     THEN exit' = error.s /\ stderr' = stderr \o EscapeLines(error)
     ELSE LET h == handle_http_error(error) IN
          IF h.err # ""
          THEN /\ exit' = h.err
               /\ stderr' = Append(stderr, <<"Traceback: ", h.err, ": ", "unhashable type">>)
          ELSE exit' = "returned" /\ stderr' = Append(stderr, h.line)
  /\ UNCHANGED <<inputs, ctx_api_key, api_key, client, payload, calls, response, error,
                 stdout>>

(***************************************************************************)
(* The commands                                                            *)
(***************************************************************************)
create ==
  /\ cmd = "create"
  /\ \/ BuildTask
     \/ Call("create_task", FALSE)
     \/ EchoPlain
     \/ Except

run ==
  /\ cmd = "run"
  /\ \/ BuildTask
     \/ Call("run_tasks_until_done", args.verbose)
     \/ EchoJson
     \/ Except

async_run ==
  /\ cmd = "arun"
  /\ \/ BuildTask
     \/ Call("arun_tasks_until_done", args.verbose)
     \/ EchoJson
     \/ Except

run_batch ==
  /\ cmd = "batch"
  /\ \/ LoadTasks
     \/ Call("run_tasks_until_done", args.verbose)
     \/ EchoJson
     \/ Except

async_batch ==
  /\ cmd = "abatch"
  /\ \/ LoadTasks
     \/ Call("arun_tasks_until_done", args.verbose)
     \/ EchoJson
     \/ Except

status ==
  /\ cmd = "status"
  /\ \/ TakeTaskId
     \/ Call("get_task_status", FALSE)
     \/ EchoJson
     \/ Except

result ==
  /\ cmd = "result"
  /\ \/ TakeTaskId
     \/ (lib # "legacy" /\ Call("get_task_result", FALSE))
     \/ (lib = "legacy" /\ NoSuchMethod)
     \/ EchoJson
     \/ Except

Next ==
  \/ cli
  \/ GetApiKey
  \/ create_client
  \/ create
  \/ run
  \/ async_run
  \/ run_batch
  \/ async_batch
  \/ status
  \/ result

Spec == Init /\ [][Next]_vars

(***************************************************************************)
(* Properties                                                              *)
(***************************************************************************)
Built == pc \in {"payload", "returned", "raised", "exit"} /\ payload # Unset
Ended == pc = "exit"
NoCredential == ~Truthy(args.api_key) /\ ~Truthy(environ)

\* C1: with no non-empty --api-key and no non-empty FUTUREHOUSE_API_KEY, every
\* command ends with click.BadParameter, the client is never constructed and
\* no call is ever made on it.
C1_MissingCredential ==
  NoCredential =>
    /\ client = FALSE
    /\ calls = <<>>
    /\ pc \in {"cli", "cmd", "exit"}
    /\ Ended => exit = "BadParameter" /\ stdout = <<>>

C1_Witness ==
  /\ NoCredential
  /\ Ended
  /\ cmd = "result"
  /\ args.api_key = PyStr("")
  /\ stderr = << <<"Error: Invalid value: ", "API key not provided">> >>

\* The status code as the specification describes it: the exception's own
\* when it has one, else the one of its response.
OwnCode(e) == IF HasAttr(e, "status_code") THEN DictItem(e.c[1], "status_code") ELSE NoneV
ResponseCode(e) ==
  IF HasAttr(e, "response") /\ DictItem(e.c[1], "response") # NoneV
     /\ HasAttr(DictItem(e.c[1], "response"), "status_code")
  THEN DictItem(DictItem(e.c[1], "response").c[1], "status_code")
  ELSE NoneV
CodeOf(e) == IF OwnCode(e) # NoneV THEN OwnCode(e) ELSE ResponseCode(e)
\* C2: once the client call raised, stderr holds `Error <code>: <message>`
\* when the code (the exception's own, else its response's) is one of 400, 401,
\* 403, 429, 500, 503, and `Error: <message>` for any other code or none.
C2_ErrorFormat ==
  (Ended /\ error # Unset) =>
    /\ Len(stderr) = 1
    /\ \/ /\ CodeOf(error) \in {PyInt(c) : c \in {400, 401, 403, 429, 500, 503}}
          /\ stderr[1] = <<"Error ", ToString(CodeOf(error).n), ": ", error.m>>
       \/ /\ CodeOf(error) \notin {PyInt(c) : c \in {400, 401, 403, 429, 500, 503}}
          /\ stderr[1] = <<"Error: ", error.m>>

Designated ==
  [c \in Commands |->
     CASE c = "create" -> "create_task"
       [] c \in {"run", "batch"} -> "run_tasks_until_done"
       [] c \in {"arun", "abatch"} -> "arun_tasks_until_done"
       [] c = "status" -> "get_task_status"
       [] OTHER -> "get_task_result"]

\* The line of the error formatter for the exception e, with or without a
\* code.
ErrorLine(line, e) ==
  /\ Len(line) >= 2
  /\ line[1] \in {"Error: ", "Error "}
  /\ line[Len(line)] = e.m

\* C8: at most one call is made on the client, and it is the command's
\* designated capability; nothing is printed before the call has resolved;
\* once the call raised no further call is made, stdout stays empty and the
\* command ends after printing the error: stderr holds the formatter's line
\* and the command has returned.
C8_OneCall ==
  /\ Len(calls) <= 1
  /\ \A i \in 1..Len(calls) : calls[i].m = Designated[cmd]
  /\ pc \in {"payload", "returned", "raised"} => stdout = <<>> /\ stderr = <<>>
  /\ error # Unset => stdout = <<>>
  /\ (Ended /\ error # Unset) =>
       /\ Len(stderr) = 1
       /\ ErrorLine(stderr[1], error)
       /\ exit = "returned"

(***************************************************************************)
(* The payload of create, run and arun                                     *)
(***************************************************************************)
Flags == {"continued_task_id", "timeout", "max_steps"}
FlagValue(f) ==
  CASE f = "continued_task_id" -> args.continued_task_id
    [] f = "timeout" -> args.timeout
    [] OTHER -> args.max_steps
\* The runtime_config of the Task Request, None or a dict.
SentConfig == DictItem(payload, "runtime_config")
TaskBuilt == cmd \in TaskCommands /\ Built
\* The --runtime-config value is a JSON object.
JsonIsObject ==
  /\ args.runtime_config_json # NoneV
  /\ json_loads(args.runtime_config_json).ok
  /\ json_loads(args.runtime_config_json).val.t = "dict"
JsonObject == IF JsonIsObject THEN json_loads(args.runtime_config_json).val ELSE Dict(<<>>)
NoNullEntries(d) == \A i \in 1..Len(d.c) : d.c[i].v # NoneV

\* C3 as stated: with the three options and --runtime-config omitted the
\* runtime_config is None; and a key continued_task_id, timeout or max_steps is
\* in runtime_config only when its own option was supplied.
C3_Original ==
  TaskBuilt =>
    /\ ((\A f \in Flags : FlagValue(f) = NoneV) /\ args.runtime_config_json = NoneV)
         => SentConfig = NoneV
    /\ \A f \in Flags :
         (SentConfig # NoneV /\ DictHas(SentConfig, f)) => FlagValue(f) # NoneV

\* C3 (amended): with the three options and --runtime-config omitted the
\* runtime_config is None, and it is never an empty mapping; a key
\* continued_task_id, timeout or max_steps is in runtime_config only when its
\* own option was supplied or the --runtime-config JSON holds that key, and an
\* entry written for an option is never null.
C3_OmittedNotNull ==
  TaskBuilt =>
    /\ ((\A f \in Flags : FlagValue(f) = NoneV) /\ args.runtime_config_json = NoneV)
         => SentConfig = NoneV
    /\ SentConfig # Dict(<<>>)
    /\ \A f \in Flags :
         (SentConfig # NoneV /\ DictHas(SentConfig, f)) =>
           \/ FlagValue(f) # NoneV /\ DictItem(SentConfig, f) = FlagValue(f)
           \/ JsonIsObject /\ DictHas(JsonObject, f)
              /\ DictItem(SentConfig, f) = DictItem(JsonObject, f)
    /\ (args.runtime_config_json = NoneV /\ SentConfig # NoneV) => NoNullEntries(SentConfig)

C3_Witness ==
  /\ TaskBuilt
  /\ cmd = "create"
  /\ Len(calls) = 1
  /\ \A f \in Flags : FlagValue(f) = NoneV
  /\ args.runtime_config_json = NoneV
  /\ DictItem(calls[1].arg, "runtime_config") = NoneV

C3_WitnessOneFlag ==
  /\ TaskBuilt
  /\ args.runtime_config_json = NoneV
  /\ args.timeout = PyInt(5)
  /\ args.max_steps = NoneV
  /\ args.continued_task_id = NoneV
  /\ SentConfig = Dict(<<Pair("timeout", PyInt(5))>>)

\* C10: the runtime_config sent is the --runtime-config JSON object overlaid
\* with the truthy ones of the three options: a truthy option gives its key its
\* value, every other key of the JSON keeps its value, no other key appears,
\* and an empty result is sent as None.
C10_Overlay ==
  (TaskBuilt /\ (args.runtime_config_json = NoneV \/ JsonIsObject)) =>
    LET set == {f \in Flags : Truthy(FlagValue(f))}
        keys == DictKeys(JsonObject) \cup {PyStr(f) : f \in set} IN
    IF keys = {} THEN SentConfig = NoneV
    ELSE /\ SentConfig # NoneV
         /\ SentConfig.t = "dict"
         /\ DictKeys(SentConfig) = keys
         /\ Len(SentConfig.c) = Cardinality(keys)
         /\ \A f \in set : DictItem(SentConfig, f) = FlagValue(f)
         /\ \A k \in DictKeys(JsonObject) \ {PyStr(f) : f \in set} :
              DictGet(SentConfig, k) = DictGet(JsonObject, k)

C10_Witness ==
  /\ TaskBuilt
  /\ cmd = "run"
  /\ Len(calls) = 1
  /\ JsonIsObject
  /\ JsonObject = JsonA
  /\ args.timeout = PyInt(5)
  /\ args.max_steps = PyInt(0)
  /\ args.continued_task_id = PyStr("")
  /\ DictItem(calls[1].arg, "runtime_config") =
       Dict(<<Pair("timeout", PyInt(5)), Pair("extra", PyStr("x"))>>)

\* C9 as stated: a --name that is no member of the enumeration is the `name`
\* of the Task Request verbatim, and the client call is made.
C9_UnknownNamePassedThrough ==
  (cmd \in TaskCommands /\ Ended /\ client /\ args.name \notin Members
     /\ runtime_config(args.runtime_config_json, args.continued_task_id,
                       args.timeout, args.max_steps).err = "") =>
    /\ Len(calls) = 1
    /\ DictItem(calls[1].arg, "name") = PyStr(args.name)

(***************************************************************************)
(* Fallback, malformed input, serialization and batches                    *)
(***************************************************************************)
\* C4 as stated: result, on a client without get_task_result but with the
\* legacy get_task, calls get_task with the same task id and prints what it
\* returns as JSON, not an error.
C4_LegacyFallback ==
  (cmd = "result" /\ lib = "legacy" /\ Ended /\ exit = "returned") =>
    /\ \E i \in 1..Len(calls) : calls[i].m = "get_task" /\ calls[i].arg = args.task_id
    /\ Len(stdout) = 1
    /\ stderr = <<>>

\* The input is not valid JSON: the --file content of batch and abatch, the
\* (non-empty) --runtime-config value of create, run and arun.
MalformedInput ==
  \/ cmd \in BatchCommands /\ args.file # NoneV /\ ~json_loads(args.file).ok
  \/ /\ cmd \in TaskCommands
     /\ Truthy(args.runtime_config_json)
     /\ ~json_loads(args.runtime_config_json).ok

\* C5 as stated: malformed JSON input ends the command with a user-input
\* error (click.BadParameter) and no call is made on the client.
C5_MalformedJson ==
  (MalformedInput /\ client /\ Ended) =>
    /\ exit = "BadParameter"
    /\ calls = <<>>

RECURSIVE SpecConvert(_)
\* The conversion the specification describes: a sequence element-wise, an
\* object with a structured export by its export, else an object with an
\* attribute mapping by that mapping, else the value itself.
SpecConvert(v) ==
  CASE v.t = "list" -> List([i \in 1..Len(v.c) |-> SpecConvert(v.c[i])])
    [] v.t = "obj" /\ v.s = "model" -> v.c[1]
    [] v.t = "obj" /\ v.s = "attrs" -> v.c[1]
    [] OTHER -> v

\* C6 as stated: for run, arun, batch, abatch, status and result, whatever the
\* client returned is printed to stdout as the JSON of its conversion, and is
\* not reported as an error.
C6_Converted ==
  (cmd # "create" /\ Ended /\ response # Unset) =>
    /\ stdout = <<Text(Dumps(SpecConvert(response)))>>
    /\ stderr = <<>>

\* The --file content is a JSON array.
FileIsArray ==
  /\ cmd \in BatchCommands
  /\ args.file # NoneV
  /\ json_loads(args.file).ok
  /\ json_loads(args.file).val.t = "list"

\* C7 as stated: the array of the file is the argument of the one client call,
\* element for element; when the client returned one result per task the
\* output is the JSON array of these results in the same order; when the call
\* failed nothing is printed to stdout.
C7_BatchRoundTrip ==
  (FileIsArray /\ client /\ Ended) =>
    /\ Len(calls) = 1
    /\ calls[1].arg = json_loads(args.file).val
    /\ error # Unset => stdout = <<>>
    /\ response # Unset =>
         /\ Len(stdout) = 1
         /\ json_loads(stdout[1]).ok
         /\ json_loads(stdout[1]).val = SpecConvert(response)
         /\ Len(json_loads(stdout[1]).val.c) = Len(json_loads(args.file).val.c)

====
